---------------------------- MODULE Spec2Model ----------------------------
(***************************************************************************)
(* A model of the spatial decomposition and coordinate mapping engine of   *)
(* analyze_dxf.py: robust bounds, layout classification, X-histogram       *)
(* sections, the overlapping zone grid, the world-to-pixel transformer,    *)
(* the per-zone annotation extraction, the collection of the point cloud   *)
(* and of the drawable batch, and main's choice between the two modes.     *)
(*                                                                         *)
(* Python floats are modelled as exact rationals <<n, d>> (d > 0, lowest   *)
(* terms); int() is truncation toward zero.                                *)
(***************************************************************************)
EXTENDS Integers, Sequences, FiniteSets, TLC

VARIABLES
    all_x, all_y, bounds,         \* calculate_smart_bounds: arguments, result
    tr, queries,                  \* a CoordinateTransformer, its answered calls
    global_bounds, num_zones, overlap_percent,   \* split_into_hybrid_zones:
    img_size, msp,                \*   arguments, the rendered image's size
    zones_config, zi, zpc,        \*   the grid, the loop index, the position
    hybrid_zones,                 \*   the zones emitted so far
    entity_counts, layers,        \* detect_flattened_dxf: arguments,
    is_flattened, fpc,            \*   result, position
    sec_x, min_gap_ratio, min_points_per_section,   \* detect_sections_by_x_histogram:
    hist, threshold,              \*   arguments, bin counts, density threshold
    bin_i, scan,                  \*   the bin being scanned, the scan's locals
    valid_sections, spc,          \*   the returned list, position
    args_sections, use_sections,  \* main: the --sections flag, the branch taken,
    result, mpc,                  \*   the result document, position
    col_msp, col_i,               \* collect_all_points, collect_geometry_batch:
    batch_bounds, geometry, cpc   \*   modelspace, loop index, bounds, batch, position

boundsVars == <<all_x, all_y, bounds>>
trVars == <<tr, queries>>
zoneVars == <<global_bounds, num_zones, overlap_percent, img_size, msp,
              zones_config, zi, zpc, hybrid_zones>>
flatVars == <<entity_counts, layers, is_flattened, fpc>>
secVars == <<sec_x, min_gap_ratio, min_points_per_section, hist, threshold,
             bin_i, scan, valid_sections, spc>>
vars == <<all_x, all_y, bounds, tr, queries,
          global_bounds, num_zones, overlap_percent, img_size, msp,
          zones_config, zi, zpc, hybrid_zones,
          entity_counts, layers, is_flattened, fpc,
          sec_x, min_gap_ratio, min_points_per_section, hist, threshold,
          bin_i, scan, valid_sections, spc,
          args_sections, use_sections, result, mpc,
          col_msp, col_i, batch_bounds, geometry, cpc>>
mainVars == <<args_sections, use_sections, result, mpc>>
colVars == <<col_msp, col_i, batch_bounds, geometry, cpc>>

-----------------------------------------------------------------------------
(* Rational arithmetic: the float operations of the source, made exact.    *)

Abs(n) == IF n < 0 THEN -n ELSE n

RECURSIVE GCD(_, _)
GCD(a, b) == IF b = 0 THEN a ELSE GCD(b, a % b)

Frac(n, d) ==
    LET s == IF d < 0 THEN -1 ELSE 1
        g == GCD(Abs(n), Abs(d))
    IN  <<(s * n) \div g, (s * d) \div g>>

Q(n) == <<n, 1>>

\* (common factors are divided out before multiplying, to keep the terms small)
QAdd(a, b) ==
    LET g == GCD(a[2], b[2])
    IN  Frac(a[1] * (b[2] \div g) + b[1] * (a[2] \div g), (a[2] \div g) * b[2])
QNeg(a) == <<-a[1], a[2]>>
QSub(a, b) == QAdd(a, QNeg(b))
QMul(a, b) ==
    LET g1 == GCD(Abs(a[1]), b[2])
        g2 == GCD(Abs(b[1]), a[2])
    IN  Frac((a[1] \div g1) * (b[1] \div g2), (a[2] \div g2) * (b[2] \div g1))
QDiv(a, b) ==
    IF b[1] < 0 THEN QMul(a, <<-b[2], -b[1]>>) ELSE QMul(a, <<b[2], b[1]>>)
QLt(a, b) ==
    LET g == GCD(a[2], b[2])
    IN  a[1] * (b[2] \div g) < b[1] * (a[2] \div g)
QLe(a, b) ==
    LET g == GCD(a[2], b[2])
    IN  a[1] * (b[2] \div g) <= b[1] * (a[2] \div g)
\* Python's max(a, b) and min(a, b): the first argument wins a tie
QMax(a, b) == IF QLt(a, b) THEN b ELSE a
QMin(a, b) == IF QLt(b, a) THEN b ELSE a
\* floor of a rational, and Python's int(): truncation toward zero
QFloor(a) == a[1] \div a[2]
QTrunc(a) == IF a[1] >= 0 THEN a[1] \div a[2] ELSE -((-a[1]) \div a[2])

Range(s) == {s[i] : i \in 1..Len(s)}

Rep(v, n) == [i \in 1..n |-> v]

-----------------------------------------------------------------------------
(* np.percentile(a, p): linear interpolation between the order statistics  *)
(* at index p/100 * (n - 1) of the sorted array.                           *)

\* the k-th smallest element (k from 0) of a sequence of integers
KthSmallest(s, k) ==
    CHOOSE v \in Range(s) :
        /\ Cardinality({i \in 1..Len(s) : s[i] < v}) <= k
        /\ k < Cardinality({i \in 1..Len(s) : s[i] <= v})

Percentile(s, p) ==
    LET n    == Len(s)
        lo   == (p * (n - 1)) \div 100
        rem  == (p * (n - 1)) % 100
        a    == KthSmallest(s, lo)
        b    == IF rem = 0 THEN a ELSE KthSmallest(s, lo + 1)
    IN  QAdd(Q(a), QMul(Frac(rem, 100), Q(b - a)))

SeqMax(s) == CHOOSE v \in Range(s) : \A w \in Range(s) : w <= v
SeqMin(s) == CHOOSE v \in Range(s) : \A w \in Range(s) : v <= w

-----------------------------------------------------------------------------
(* calculate_smart_bounds                                                  *)

MarginNum == 1
MarginDen == 10
DefaultMargin == Frac(MarginNum, MarginDen)

NoResult == <<>>

\* "span suspiciously small compared to full range": the fence fallback applies
FenceUsed(s) ==
    LET full == SeqMax(s) - SeqMin(s)
        span == QSub(Percentile(s, 99), Percentile(s, 1))
    IN  full > 0 /\ QLt(span, QMul(Q(full), Frac(1, 100)))

\* one axis up to the padding: <<min, max>>
AxisRange(s) ==
    IF FenceUsed(s)
    THEN LET q1  == Percentile(s, 10)
             q3  == Percentile(s, 90)
             iqr == QSub(q3, q1)
         IN  <<QSub(q1, QMul(Q(2), iqr)), QAdd(q3, QMul(Q(2), iqr))>>
    ELSE <<Percentile(s, 1), Percentile(s, 99)>>

\* the mutant pads by the margin alone, without the minimum pad of 1
AxisPadNoMinimum(r, margin) == QMul(QSub(r[2], r[1]), margin)

AxisPad(r, margin) == QMax(QMul(QSub(r[2], r[1]), margin), Q(1))

\* the mutant pads the default box of an empty input
SmartBoundsPaddedDefault(xs, ys, margin) ==
    IF Len(xs) = 0 \/ Len(ys) = 0
    THEN <<Q(-10), Q(110), Q(-10), Q(110)>>
    ELSE LET xr == AxisRange(xs)
             yr == AxisRange(ys)
         IN  <<QSub(xr[1], AxisPad(xr, margin)), QAdd(xr[2], AxisPad(xr, margin)),
               QSub(yr[1], AxisPad(yr, margin)), QAdd(yr[2], AxisPad(yr, margin))>>

calculate_smart_bounds(xs, ys, margin) ==
    IF Len(xs) = 0 \/ Len(ys) = 0
    THEN <<Q(0), Q(100), Q(0), Q(100)>>
    ELSE LET xr   == AxisRange(xs)
             yr   == AxisRange(ys)
             xpad == AxisPad(xr, margin)
             ypad == AxisPad(yr, margin)
         IN  <<QSub(xr[1], xpad), QAdd(xr[2], xpad),
               QSub(yr[1], ypad), QAdd(yr[2], ypad)>>

\* Point clouds: up to three runs of equal coordinates, long enough for the
\* 1st/99th percentiles to fall inside a run (which the fence fallback needs).
BigRun == 100
RunCounts == {0, 1, 2, BigRun}
Clouds ==
    {Rep(a, c1) \o Rep(b, c2) \o Rep(c, c3) :
        <<a, b, c>> \in {<<0, 1, 1000>>, <<7, -3, 7>>},
        <<c1, c2, c3>> \in RunCounts \X RunCounts \X {0, 1}}

BoundsIdle == all_x = <<>> /\ all_y = <<>> /\ bounds = NoResult
TrIdle == tr = NoResult /\ queries = {}
ZoneIdle ==
    /\ global_bounds = NoResult /\ num_zones = 0 /\ overlap_percent = Q(0)
    /\ img_size = <<0, 0>> /\ msp = <<>>
    /\ zones_config = <<>> /\ zi = 0 /\ zpc = "idle" /\ hybrid_zones = <<>>
FlatIdle ==
    /\ entity_counts = <<>> /\ layers = <<>> /\ is_flattened = FALSE
    /\ fpc = "idle"
SecIdle ==
    /\ sec_x = <<>> /\ min_gap_ratio = Q(0) /\ min_points_per_section = 0
    /\ hist = <<>> /\ threshold = Q(0) /\ bin_i = 0 /\ scan = <<>>
    /\ valid_sections = <<>> /\ spc = "idle"
MainIdle ==
    /\ args_sections = FALSE /\ use_sections = FALSE /\ result = NoResult
    /\ mpc = "idle"

ColIdle ==
    /\ col_msp = <<>> /\ col_i = 0 /\ batch_bounds = NoResult
    /\ geometry = NoResult /\ cpc = "idle"

InitBounds ==
    /\ all_x \in Clouds
    /\ all_y \in Clouds
    /\ bounds = NoResult
    /\ TrIdle /\ ZoneIdle /\ FlatIdle /\ SecIdle /\ MainIdle /\ ColIdle

CalcBounds ==
    /\ bounds = NoResult
    /\ bounds' = calculate_smart_bounds(all_x, all_y, DefaultMargin)
    /\ UNCHANGED <<all_x, all_y, trVars, zoneVars, flatVars, secVars, mainVars, colVars>>

NextBounds == CalcBounds

SpecBounds == InitBounds /\ [][NextBounds]_vars

Distinct(s) == Cardinality(Range(s))

\* C1: a non-empty point set with at least 2 distinct X values and at least
\* 2 distinct Y values yields xmin < xmax and ymin < ymax under the default
\* margin, with the percentile span and with the fence fallback alike.
C1_BoundsNonDegenerate ==
    (bounds # NoResult /\ Distinct(all_x) >= 2 /\ Distinct(all_y) >= 2)
        => (QLt(bounds[1], bounds[2]) /\ QLt(bounds[3], bounds[4]))

\* the fence fallback replaced the X span (where it collapses to a point),
\* the percentile span was kept for Y
C1_Witness ==
    /\ bounds # NoResult
    /\ Distinct(all_x) >= 2 /\ Distinct(all_y) >= 2
    /\ FenceUsed(all_x) /\ AxisRange(all_x)[1] = AxisRange(all_x)[2]
    /\ ~FenceUsed(all_y)
    /\ QLt(bounds[1], bounds[2]) /\ QLt(bounds[3], bounds[4])

\* C2: an empty point set (X empty or Y empty) yields exactly (0, 100, 0, 100)
C2_EmptyDefault ==
    (bounds # NoResult /\ (Len(all_x) = 0 \/ Len(all_y) = 0))
        => bounds = <<Q(0), Q(100), Q(0), Q(100)>>

C2_Witness ==
    /\ bounds = <<Q(0), Q(100), Q(0), Q(100)>>
    /\ Len(all_x) > 0 /\ Len(all_y) = 0

-----------------------------------------------------------------------------
(* CoordinateTransformer                                                   *)

\* the mutant takes the Y scale from the image width
TransformerScaleYFromWidth(world_bounds, image_size) ==
    LET world_width  == QSub(world_bounds[2], world_bounds[1])
        world_height == QSub(world_bounds[4], world_bounds[3])
    IN  [world_xmin |-> world_bounds[1], world_xmax |-> world_bounds[2],
         world_ymin |-> world_bounds[3], world_ymax |-> world_bounds[4],
         img_width |-> image_size[1], img_height |-> image_size[2],
         scale_x |-> IF QLt(Q(0), world_width)
                     THEN QDiv(Q(image_size[1]), world_width) ELSE Q(1),
         scale_y |-> IF QLt(Q(0), world_height)
                     THEN QDiv(Q(image_size[1]), world_height) ELSE Q(1)]

\* __init__(world_bounds, image_size)
CoordinateTransformer(world_bounds, image_size) ==
    LET world_width  == QSub(world_bounds[2], world_bounds[1])
        world_height == QSub(world_bounds[4], world_bounds[3])
    IN  [world_xmin |-> world_bounds[1], world_xmax |-> world_bounds[2],
         world_ymin |-> world_bounds[3], world_ymax |-> world_bounds[4],
         img_width |-> image_size[1], img_height |-> image_size[2],
         scale_x |-> IF QLt(Q(0), world_width)
                     THEN QDiv(Q(image_size[1]), world_width) ELSE Q(1),
         scale_y |-> IF QLt(Q(0), world_height)
                     THEN QDiv(Q(image_size[2]), world_height) ELSE Q(1)]

\* the mutant omits the Y flip
WorldToPixelNoFlip(t, x, y) ==
    <<QTrunc(QMul(QSub(x, t.world_xmin), t.scale_x)),
      QTrunc(QMul(QSub(y, t.world_ymin), t.scale_y))>>

world_to_pixel(t, x, y) ==
    LET px == QMul(QSub(x, t.world_xmin), t.scale_x)
        py == QSub(Q(t.img_height), QMul(QSub(y, t.world_ymin), t.scale_y))
    IN  <<QTrunc(px), QTrunc(py)>>

MaxQueries == 2

TrAxes == {<<0, 3>>, <<-1, 2>>, <<2, 2>>, <<3, 0>>}
TrSizes == {1, 7, 10}
TrCoords == -1..3

InitTransform ==
    /\ \E xa \in TrAxes, ya \in TrAxes, w \in TrSizes, h \in TrSizes :
          tr = CoordinateTransformer(<<Q(xa[1]), Q(xa[2]), Q(ya[1]), Q(ya[2])>>,
                                     <<w, h>>)
    /\ queries = {}
    /\ BoundsIdle /\ ZoneIdle /\ FlatIdle /\ SecIdle /\ MainIdle /\ ColIdle

Query(x, y) ==
    /\ tr # NoResult
    /\ Cardinality(queries) < MaxQueries
    /\ LET p == world_to_pixel(tr, Q(x), Q(y))
       IN  queries' = queries \cup {[x |-> x, y |-> y, px |-> p[1], py |-> p[2]]}
    /\ UNCHANGED <<tr, boundsVars, zoneVars, flatVars, secVars, mainVars, colVars>>

NextTransform == \E x \in TrCoords, y \in TrCoords : Query(x, y)

SpecTransform == InitTransform /\ [][NextTransform]_vars

NonDegenerate(t) ==
    QLt(t.world_xmin, t.world_xmax) /\ QLt(t.world_ymin, t.world_ymax)

\* C3: for a fixed transformer (degenerate bounds included) the truncated
\* pixel is monotonic: x1 <= x2 gives px1 <= px2, y1 <= y2 gives py1 >= py2.
C3_Monotonic ==
    \A q1 \in queries, q2 \in queries :
        /\ (q1.x <= q2.x) => (q1.px <= q2.px)
        /\ (q1.y <= q2.y) => (q1.py >= q2.py)

\* two answered calls: truncation merges distinct x into one column, a larger
\* y lands on a strictly smaller row, under a non-integer scale
C3_Witness ==
    \E q1 \in queries, q2 \in queries :
        /\ q1.x < q2.x /\ q1.px = q2.px
        /\ q1.y < q2.y /\ q1.py > q2.py
        /\ tr.scale_x[2] # 1

\* C4: with xmin < xmax and ymin < ymax, (xmin, ymin) maps to (0, H) and
\* (xmax, ymax) to (W, 0), each component within 1 pixel, and the Y axis is
\* flipped: the row of ymax is above (smaller than) the row of ymin.
C4_Corners ==
    NonDegenerate(tr) =>
        \A q \in queries :
            /\ (Q(q.x) = tr.world_xmin /\ Q(q.y) = tr.world_ymin)
                  => (Abs(q.px - 0) <= 1 /\ Abs(q.py - tr.img_height) <= 1)
            /\ (Q(q.x) = tr.world_xmax /\ Q(q.y) = tr.world_ymax)
                  => (Abs(q.px - tr.img_width) <= 1 /\ Abs(q.py - 0) <= 1)
            /\ \A r \in queries :
                  (Q(q.y) = tr.world_ymin /\ Q(r.y) = tr.world_ymax)
                      => r.py < q.py

C4_Witness ==
    /\ tr # NoResult /\ NonDegenerate(tr)
    /\ tr.img_width # tr.img_height
    /\ \E q \in queries, r \in queries :
          /\ Q(q.x) = tr.world_xmin /\ Q(q.y) = tr.world_ymin
          /\ q.px = 0 /\ q.py = tr.img_height
          /\ Q(r.x) = tr.world_xmax /\ Q(r.y) = tr.world_ymax
          /\ r.px = tr.img_width /\ r.py = 0

-----------------------------------------------------------------------------
(* calculate_zones_with_overlap                                            *)

\* int(np.ceil(np.sqrt(q))) for a rational q >= 0: the least c with c*c >= q
RECURSIVE CeilSqrtFrom(_, _)
CeilSqrtFrom(q, c) ==
    IF c * c * q[2] >= q[1] THEN c ELSE CeilSqrtFrom(q, c + 1)
CeilSqrt(q) == CeilSqrtFrom(q, 0)

\* int(np.ceil(a / b)) for integers a >= 0, b > 0
CeilDiv(a, b) == (a + b - 1) \div b

IntMax(a, b) == IF a < b THEN b ELSE a
IntMin(a, b) == IF b < a THEN b ELSE a

GridCols(gb, n) ==
    LET aspect == QDiv(QSub(gb[2], gb[1]), QSub(gb[4], gb[3]))
    IN  IntMax(1, CeilSqrt(QMul(Q(n), aspect)))
GridRows(gb, n) == IntMax(1, CeilDiv(n, GridCols(gb, n)))

\* the mutant clamps to the global bounds themselves
ZoneBoundsClampInside(gb, cols, rows, overlap, row, col) ==
    LET zone_width  == QDiv(QSub(gb[2], gb[1]), Q(cols))
        zone_height == QDiv(QSub(gb[4], gb[3]), Q(rows))
        overlap_x   == QMul(zone_width, overlap)
        overlap_y   == QMul(zone_height, overlap)
        z_xmin == QSub(QAdd(gb[1], QMul(Q(col), zone_width)), overlap_x)
        z_xmax == QAdd(QAdd(gb[1], QMul(Q(col + 1), zone_width)), overlap_x)
        z_ymin == QSub(QAdd(gb[3], QMul(Q(row), zone_height)), overlap_y)
        z_ymax == QAdd(QAdd(gb[3], QMul(Q(row + 1), zone_height)), overlap_y)
    IN  <<QMax(z_xmin, gb[1]), QMin(z_xmax, gb[2]),
          QMax(z_ymin, gb[3]), QMin(z_ymax, gb[4])>>

\* the mutant pads only the far edge of each cell
ZoneBoundsFarEdgeOnly(gb, cols, rows, overlap, row, col) ==
    LET zone_width  == QDiv(QSub(gb[2], gb[1]), Q(cols))
        zone_height == QDiv(QSub(gb[4], gb[3]), Q(rows))
        overlap_x   == QMul(zone_width, overlap)
        overlap_y   == QMul(zone_height, overlap)
    IN  <<QAdd(gb[1], QMul(Q(col), zone_width)),
          QAdd(QAdd(gb[1], QMul(Q(col + 1), zone_width)), overlap_x),
          QAdd(gb[3], QMul(Q(row), zone_height)),
          QAdd(QAdd(gb[3], QMul(Q(row + 1), zone_height)), overlap_y)>>

\* the body of the row/col loop: one zone's bounds
ZoneBoundsAt(gb, cols, rows, overlap, row, col) ==
    LET zone_width  == QDiv(QSub(gb[2], gb[1]), Q(cols))
        zone_height == QDiv(QSub(gb[4], gb[3]), Q(rows))
        overlap_x   == QMul(zone_width, overlap)
        overlap_y   == QMul(zone_height, overlap)
        z_xmin == QSub(QAdd(gb[1], QMul(Q(col), zone_width)), overlap_x)
        z_xmax == QAdd(QAdd(gb[1], QMul(Q(col + 1), zone_width)), overlap_x)
        z_ymin == QSub(QAdd(gb[3], QMul(Q(row), zone_height)), overlap_y)
        z_ymax == QAdd(QAdd(gb[3], QMul(Q(row + 1), zone_height)), overlap_y)
    IN  \* clamp to the global bounds widened by the overlap
        <<QMax(z_xmin, QSub(gb[1], overlap_x)), QMin(z_xmax, QAdd(gb[2], overlap_x)),
          QMax(z_ymin, QSub(gb[3], overlap_y)), QMin(z_ymax, QAdd(gb[4], overlap_y))>>

calculate_zones_with_overlap(gb, n, overlap) ==
    IF QLe(QSub(gb[2], gb[1]), Q(0)) \/ QLe(QSub(gb[4], gb[3]), Q(0))
    THEN <<[id |-> <<"zone", 0, 0>>, bounds |-> gb, grid_pos |-> <<0, 0>>]>>
    ELSE LET cols == GridCols(gb, n)
             rows == GridRows(gb, n)
         IN  [k \in 1..(rows * cols) |->
                LET row == (k - 1) \div cols
                    col == (k - 1) % cols
                IN  [id |-> <<"zone", row, col>>,
                     bounds |-> ZoneBoundsAt(gb, cols, rows, overlap, row, col),
                     grid_pos |-> <<row, col>>]]
-----------------------------------------------------------------------------
(* extract_zone_entities                                                   *)

InZone(pos, zb) ==
    /\ QLe(zb[1], Q(pos[1])) /\ QLe(Q(pos[1]), zb[2])
    /\ QLe(zb[3], Q(pos[2])) /\ QLe(Q(pos[2]), zb[4])

\* the mutant tests the anchor against the open box
InZoneExclusive(pos, zb) ==
    /\ QLt(zb[1], Q(pos[1])) /\ QLt(Q(pos[1]), zb[2])
    /\ QLt(zb[3], Q(pos[2])) /\ QLt(Q(pos[2]), zb[4])

RecordType(etype) == IF etype = "INSERT" THEN "BLOCK" ELSE etype

\* one pass of the loop body: the records (none or one) an entity adds.
\* e.ok = FALSE is an entity whose attribute access raises: the except skips it.
ExtractOneExclusive(e, zb, t) ==
    IF e.etype \in {"TEXT", "MTEXT", "INSERT"} /\ e.ok /\ InZoneExclusive(e.insert, zb)
    THEN <<[type |-> RecordType(e.etype), payload |-> e.payload,
            world_pos |-> e.insert,
            pixel_pos |-> world_to_pixel(t, Q(e.insert[1]), Q(e.insert[2]))]>>
    ELSE <<>>

ExtractOne(e, zb, t) ==
    IF e.etype \in {"TEXT", "MTEXT", "INSERT"} /\ e.ok /\ InZone(e.insert, zb)
    THEN <<[type |-> RecordType(e.etype), payload |-> e.payload,
            world_pos |-> e.insert,
            pixel_pos |-> world_to_pixel(t, Q(e.insert[1]), Q(e.insert[2]))]>>
    ELSE <<>>

RECURSIVE extract_zone_entities(_, _, _)
extract_zone_entities(m, zb, t) ==
    IF m = <<>> THEN <<>>
    ELSE ExtractOne(Head(m), zb, t) \o extract_zone_entities(Tail(m), zb, t)

-----------------------------------------------------------------------------
(* split_into_hybrid_zones                                                 *)

MinZonePixels == 10

\* the zone's pixel box in the full image, clamped to the image
CropBox(gb, size, zb) ==
    LET gt == CoordinateTransformer(gb, size)
        p1 == world_to_pixel(gt, zb[1], zb[4])
        p2 == world_to_pixel(gt, zb[2], zb[3])
    IN  [px1 |-> IntMax(0, IntMin(p1[1], size[1])),
         px2 |-> IntMax(0, IntMin(p2[1], size[1])),
         py1 |-> IntMax(0, IntMin(p1[2], size[2])),
         py2 |-> IntMax(0, IntMin(p2[2], size[2]))]

InvalidCrop(c) == c.px1 >= c.px2 \/ c.py1 >= c.py2
\* Image.crop: the size of the cropped image is the size of the box
CropSize(c) == <<c.px2 - c.px1, c.py2 - c.py1>>
TooSmall(c) == CropSize(c)[1] < MinZonePixels \/ CropSize(c)[2] < MinZonePixels

HybridZone(zone_cfg, c, m) ==
    LET zone_transformer == CoordinateTransformer(zone_cfg.bounds, CropSize(c))
        entities == extract_zone_entities(m, zone_cfg.bounds, zone_transformer)
    IN  [zone_id |-> zone_cfg.id,
         image_size |-> CropSize(c),
         bounds |-> zone_cfg.bounds,
         grid_position |-> zone_cfg.grid_pos,
         transform |-> zone_transformer,
         entities |-> entities,
         entity_count |-> Len(entities)]

ZoneAxesX == {<<0, 60>>, <<-5, 2>>, <<3, 3>>}
ZoneAxesY == {<<0, 60>>, <<0, 100>>}
ZoneCounts == {1, 9, 10}
ZoneOverlaps == {Frac(1, 10), Frac(1, 20)}
ZoneImages == {<<300, 300>>, <<90, 25>>}
ZoneEntities ==
    {[etype |-> "TEXT",   ok |-> TRUE,  insert |-> <<21, 21>>, payload |-> "t"],
     [etype |-> "MTEXT",  ok |-> TRUE,  insert |-> <<22, 5>>,  payload |-> "m"],
     [etype |-> "INSERT", ok |-> TRUE,  insert |-> <<20, 19>>, payload |-> "b"],
     [etype |-> "INSERT", ok |-> FALSE, insert |-> <<20, 19>>, payload |-> "b"],
     [etype |-> "LINE",   ok |-> TRUE,  insert |-> <<20, 19>>, payload |-> "l"]}
MspLen == 2

InitZones ==
    /\ \E xa \in ZoneAxesX, ya \in ZoneAxesY :
          global_bounds = <<Q(xa[1]), Q(xa[2]), Q(ya[1]), Q(ya[2])>>
    /\ num_zones \in ZoneCounts
    /\ overlap_percent \in ZoneOverlaps
    /\ img_size \in ZoneImages
    /\ msp \in [1..MspLen -> ZoneEntities]
    /\ zones_config = <<>> /\ zi = 0 /\ zpc = "start" /\ hybrid_zones = <<>>
    /\ BoundsIdle /\ TrIdle /\ FlatIdle /\ SecIdle /\ MainIdle /\ ColIdle

CalcZones ==
    /\ zpc = "start"
    /\ zones_config' = calculate_zones_with_overlap(global_bounds, num_zones,
                                                    overlap_percent)
    /\ zi' = 1
    /\ zpc' = "loop"
    /\ UNCHANGED <<global_bounds, num_zones, overlap_percent, img_size, msp,
                   hybrid_zones, boundsVars, trVars, flatVars, secVars, mainVars, colVars>>

ZoneStep(emit) ==
    /\ zi' = zi + 1
    /\ hybrid_zones' = hybrid_zones \o emit
    /\ UNCHANGED <<global_bounds, num_zones, overlap_percent, img_size, msp,
                   zones_config, zpc, boundsVars, trVars, flatVars, secVars, mainVars, colVars>>

SkipInvalidCrop ==
    /\ zpc = "loop" /\ zi <= Len(zones_config)
    /\ InvalidCrop(CropBox(global_bounds, img_size, zones_config[zi].bounds))
    /\ ZoneStep(<<>>)

SkipTooSmall ==
    /\ zpc = "loop" /\ zi <= Len(zones_config)
    /\ LET c == CropBox(global_bounds, img_size, zones_config[zi].bounds)
       IN  ~InvalidCrop(c) /\ TooSmall(c)
    /\ ZoneStep(<<>>)

EmitZone ==
    /\ zpc = "loop" /\ zi <= Len(zones_config)
    /\ LET c == CropBox(global_bounds, img_size, zones_config[zi].bounds)
       IN  /\ ~InvalidCrop(c) /\ ~TooSmall(c)
           /\ ZoneStep(<<HybridZone(zones_config[zi], c, msp)>>)

ReturnZones ==
    /\ zpc = "loop" /\ zi > Len(zones_config)
    /\ zpc' = "done"
    /\ UNCHANGED <<global_bounds, num_zones, overlap_percent, img_size, msp,
                   zones_config, zi, hybrid_zones, boundsVars, trVars, flatVars, secVars, mainVars, colVars>>

NextZones ==
    \/ CalcZones
    \/ SkipInvalidCrop
    \/ SkipTooSmall
    \/ EmitZone
    \/ ReturnZones

SpecZones == InitZones /\ [][NextZones]_vars
\* the grid as read off the returned list, in the state it is returned in
\* (zones_config never changes afterwards)
ZonesReturned == zpc = "loop" /\ zi = 1
ResultCols == 1 + CHOOSE c \in 0..Len(zones_config) :
                    /\ \E k \in 1..Len(zones_config) : zones_config[k].grid_pos[2] = c
                    /\ \A k \in 1..Len(zones_config) : zones_config[k].grid_pos[2] <= c
ResultRows == 1 + CHOOSE r \in 0..Len(zones_config) :
                    /\ \E k \in 1..Len(zones_config) : zones_config[k].grid_pos[1] = r
                    /\ \A k \in 1..Len(zones_config) : zones_config[k].grid_pos[1] <= r
GlobalWidth == QSub(global_bounds[2], global_bounds[1])
GlobalHeight == QSub(global_bounds[4], global_bounds[3])
GlobalNonDegenerate == QLt(Q(0), GlobalWidth) /\ QLt(Q(0), GlobalHeight)
CellWidth == QDiv(GlobalWidth, Q(ResultCols))
CellHeight == QDiv(GlobalHeight, Q(ResultRows))
PadX == QMul(CellWidth, overlap_percent)
PadY == QMul(CellHeight, overlap_percent)
\* a zone's bounds with the overlap padding removed
BaseCell(z) ==
    <<QAdd(z.bounds[1], PadX), QSub(z.bounds[2], PadX),
      QAdd(z.bounds[3], PadY), QSub(z.bounds[4], PadY)>>
ZoneAt(row, col) ==
    CHOOSE z \in Range(zones_config) : z.grid_pos = <<row, col>>

ProbeDiv == 6
ProbePoints ==
    {<<QAdd(global_bounds[1], QMul(Frac(i, ProbeDiv), GlobalWidth)),
       QAdd(global_bounds[3], QMul(Frac(j, ProbeDiv), GlobalHeight))>> :
        i \in 0..ProbeDiv, j \in 0..ProbeDiv}

\* C5: for non-degenerate bounds the grid has rows*cols zones, one per grid
\* position; the base cells (zone bounds less the overlap padding) start at
\* the lower bound, end at the upper bound and meet their neighbours without
\* gap in both directions; every point of the bounds lies in some zone; and
\* numZones = 9 over a square gives the 3 x 3 grid.
C5_BaseCellsTile ==
    (ZonesReturned /\ GlobalNonDegenerate) =>
        /\ Len(zones_config) = ResultRows * ResultCols
        /\ \A r \in 0..(ResultRows - 1), c \in 0..(ResultCols - 1) :
              /\ Cardinality({k \in 1..Len(zones_config) :
                                zones_config[k].grid_pos = <<r, c>>}) = 1
              /\ LET b == BaseCell(ZoneAt(r, c))
                 IN  /\ QLt(b[1], b[2]) /\ QLt(b[3], b[4])
                     /\ (c = 0) => b[1] = global_bounds[1]
                     /\ (c = ResultCols - 1) => b[2] = global_bounds[2]
                     /\ (c < ResultCols - 1) => b[2] = BaseCell(ZoneAt(r, c + 1))[1]
                     /\ (r = 0) => b[3] = global_bounds[3]
                     /\ (r = ResultRows - 1) => b[4] = global_bounds[4]
                     /\ (r < ResultRows - 1) => b[4] = BaseCell(ZoneAt(r + 1, c))[3]
        /\ \A p \in ProbePoints :
              \E z \in Range(zones_config) :
                  /\ QLe(z.bounds[1], p[1]) /\ QLe(p[1], z.bounds[2])
                  /\ QLe(z.bounds[3], p[2]) /\ QLe(p[2], z.bounds[4])
        /\ (num_zones = 9 /\ GlobalWidth = GlobalHeight)
              => (Len(zones_config) = 9 /\ ResultRows = 3 /\ ResultCols = 3)

\* the stated case: 9 zones, 10% overlap, square bounds
C5_Witness ==
    /\ ZonesReturned /\ GlobalNonDegenerate
    /\ num_zones = 9 /\ overlap_percent = Frac(1, 10)
    /\ GlobalWidth = GlobalHeight
    /\ Len(zones_config) = 9

\* the strips shared by neighbours: widths of the horizontal and vertical overlap
StripX(r, c) == QSub(ZoneAt(r, c).bounds[2], ZoneAt(r, c + 1).bounds[1])
StripY(r, c) == QSub(ZoneAt(r, c).bounds[4], ZoneAt(r + 1, c).bounds[3])
\* |a - b| <= b / 100
Within1Percent(a, b) ==
    /\ QLe(QSub(a, b), QMul(b, Frac(1, 100)))
    /\ QLe(QSub(b, a), QMul(b, Frac(1, 100)))

\* C6 as stated: neighbouring zones overlap by a strip within 1% of
\* overlapPercent x cellWidth (horizontally) or cellHeight (vertically).
C6_OverlapIsOnePad ==
    (ZonesReturned /\ GlobalNonDegenerate) =>
        \A r \in 0..(ResultRows - 1), c \in 0..(ResultCols - 1) :
            /\ (c < ResultCols - 1) => Within1Percent(StripX(r, c), PadX)
            /\ (r < ResultRows - 1) => Within1Percent(StripY(r, c), PadY)

\* C6 amended: both zones are padded, so the strip is within 1% of
\* 2 x overlapPercent x cellWidth (horizontally) or cellHeight (vertically).
C6_OverlapIsTwoPads ==
    (ZonesReturned /\ GlobalNonDegenerate) =>
        \A r \in 0..(ResultRows - 1), c \in 0..(ResultCols - 1) :
            /\ (c < ResultCols - 1)
                  => Within1Percent(StripX(r, c), QMul(Q(2), PadX))
            /\ (r < ResultRows - 1)
                  => Within1Percent(StripY(r, c), QMul(Q(2), PadY))

C6_Witness ==
    /\ ZonesReturned /\ GlobalNonDegenerate
    /\ ResultRows >= 2 /\ ResultCols >= 2
    /\ QLt(Q(0), PadX)
    /\ StripX(0, 0) = QMul(Q(2), PadX)
    /\ StripY(0, 0) = QMul(Q(2), PadY)

\* the annotation entities of the modelspace whose anchor can be read
IsAnnotation(e) == e.etype \in {"TEXT", "MTEXT", "INSERT"} /\ e.ok
KindOf(e) == IF e.etype = "INSERT" THEN "BLOCK" ELSE e.etype
IsRecordOf(r, e) ==
    r.type = KindOf(e) /\ r.payload = e.payload /\ r.world_pos = e.insert
AnchorInside(e, zb) ==
    /\ QLe(zb[1], Q(e.insert[1])) /\ QLe(Q(e.insert[1]), zb[2])
    /\ QLe(zb[3], Q(e.insert[2])) /\ QLe(Q(e.insert[2]), zb[4])
Count(seq, P(_)) == Cardinality({i \in 1..Len(seq) : P(seq[i])})

\* C10: in every emitted zone, an annotation entity has a record exactly when
\* its anchor is inside the zone's bounds, edges included (one record per
\* occurrence in the modelspace, none for anything else), and each record's
\* pixel position is world_to_pixel of the anchor under the transformer built
\* for that zone; so an anchor inside two zones is recorded in both.
C10_ExtractInclusive ==
    \A k \in 1..Len(hybrid_zones) :
        LET h == hybrid_zones[k]
            t == CoordinateTransformer(h.bounds, h.image_size)
        IN  /\ h.transform = t
            /\ \A i \in 1..Len(msp) :
                  IsAnnotation(msp[i]) =>
                      LET Mine(r) == IsRecordOf(r, msp[i])
                          Same(e) == IsAnnotation(e) /\ KindOf(e) = KindOf(msp[i])
                                       /\ e.payload = msp[i].payload
                                       /\ e.insert = msp[i].insert
                      IN  Count(h.entities, Mine) =
                            IF AnchorInside(msp[i], h.bounds)
                            THEN Count(msp, Same) ELSE 0
            /\ \A j \in 1..Len(h.entities) :
                  /\ \E i \in 1..Len(msp) :
                        IsAnnotation(msp[i]) /\ IsRecordOf(h.entities[j], msp[i])
                  /\ h.entities[j].pixel_pos =
                        world_to_pixel(t, Q(h.entities[j].world_pos[1]),
                                          Q(h.entities[j].world_pos[2]))

\* an anchor exactly on the right edge of one zone, inside its right
\* neighbour: recorded in both, at different pixel positions
C10_Witness ==
    \E k1 \in 1..Len(hybrid_zones), k2 \in 1..Len(hybrid_zones) :
        \E i \in 1..Len(msp) :
            LET h1 == hybrid_zones[k1]
                h2 == hybrid_zones[k2]
            IN  /\ IsAnnotation(msp[i])
                /\ h1.grid_position[1] = h2.grid_position[1]
                /\ h1.grid_position[2] + 1 = h2.grid_position[2]
                /\ Q(msp[i].insert[1]) = h1.bounds[2]
                /\ \E r1 \in Range(h1.entities), r2 \in Range(h2.entities) :
                      /\ IsRecordOf(r1, msp[i]) /\ IsRecordOf(r2, msp[i])
                      /\ r1.pixel_pos # r2.pixel_pos
\* an entity's pixel in the full image, by the global transformer
GlobalPixel(pos) ==
    world_to_pixel(CoordinateTransformer(global_bounds, img_size),
                   Q(pos[1]), Q(pos[2]))
\* the crop box of an emitted zone
CropOf(z) == CropBox(global_bounds, img_size, z.bounds)
Within1Pixel(a, b) == Abs(a - b) <= 1

\* C19: for every emitted zone and every annotation entity recorded in it,
\* the zone-local pixel position shifted by the crop origin (px1, py1) is
\* within 1 pixel per axis of the entity's pixel under the global
\* transformer, also when the crop box was clamped to the image.
C19_ZonePixelMatchesCrop ==
    \A k \in 1..Len(hybrid_zones) :
        LET z == hybrid_zones[k]
        IN  \A j \in 1..Len(z.entities) :
                LET r == z.entities[j]
                    g == GlobalPixel(r.world_pos)
                IN  /\ Within1Pixel(r.pixel_pos[1] + CropOf(z).px1, g[1])
                    /\ Within1Pixel(r.pixel_pos[2] + CropOf(z).py1, g[2])

-----------------------------------------------------------------------------
(* detect_flattened_dxf                                                    *)

\* dict.get(key, 0)
Get(d, k) == IF k \in DOMAIN d THEN d[k] ELSE 0

RECURSIVE SumOver(_, _)
SumOver(d, keys) ==
    IF keys = {} THEN 0
    ELSE LET k == CHOOSE x \in keys : TRUE
         IN  Get(d, k) + SumOver(d, keys \ {k})

\* sum(entity_counts.values())
SumValues(d) == SumOver(d, DOMAIN d)

geometry_types == {"LINE", "LWPOLYLINE", "POLYLINE", "ARC", "CIRCLE", "SPLINE"}

\* count / total if total > 0 else 0
Ratio(count, total) == IF total > 0 THEN Frac(count, total) ELSE Q(0)

meaningful_layers(ls) ==
    SelectSeq(ls, LAMBDA l : l \notin {"0", "Defpoints", "DEFPOINTS"})

\* the mutant takes the "90%+" of the comment for the geometry threshold
DetectFlattenedGeometry90(counts, ls) ==
    LET total == SumValues(counts)
    IN  /\ QLt(Ratio(Get(counts, "INSERT"), total), Frac(1, 100))
        /\ QLt(Ratio(Get(counts, "TEXT") + Get(counts, "MTEXT"), total), Frac(1, 1000))
        /\ QLt(Frac(90, 100), Ratio(SumOver(counts, geometry_types), total))
        /\ Len(meaningful_layers(ls)) < 5

detect_flattened_dxf(counts, ls) ==
    LET total          == SumValues(counts)
        insert_ratio   == Ratio(Get(counts, "INSERT"), total)
        text_count     == Get(counts, "TEXT") + Get(counts, "MTEXT")
        text_ratio     == Ratio(text_count, total)
        geometry_count == SumOver(counts, geometry_types)
        geometry_ratio == Ratio(geometry_count, total)
    IN  /\ QLt(insert_ratio, Frac(1, 100))
        /\ QLt(text_ratio, Frac(1, 1000))
        /\ QLt(Frac(95, 100), geometry_ratio)
        /\ Len(meaningful_layers(ls)) < 5

CountChoices ==
    [LINE : {0, 95, 96, 700, 999, 9500}, LWPOLYLINE : {0, 400},
     ARC : {0, 5}, INSERT : {0, 1, 200}, TEXT : {0, 1, 100}, MTEXT : {0, 1},
     HATCH : {0, 5}]
TypeCounts(c) ==
    [t \in {"LINE", "LWPOLYLINE", "ARC", "INSERT", "TEXT", "MTEXT", "HATCH"} |->
        CASE t = "LINE" -> c.LINE
          [] t = "LWPOLYLINE" -> c.LWPOLYLINE
          [] t = "ARC" -> c.ARC
          [] t = "INSERT" -> c.INSERT
          [] t = "TEXT" -> c.TEXT
          [] t = "MTEXT" -> c.MTEXT
          [] t = "HATCH" -> c.HATCH]
LayerChoices ==
    {<<>>, <<"0">>, <<"0", "DEFPOINTS">>,
     <<"0", "Defpoints", "A", "B", "C", "D">>,
     <<"DEFPOINTS", "A", "B", "C", "D">>,
     <<"A", "B", "C", "D", "E">>,
     <<"A", "B", "C", "D", "E", "F">>}

InitFlat ==
    /\ \E c \in CountChoices : entity_counts = TypeCounts(c)
    /\ layers \in LayerChoices
    /\ is_flattened = FALSE
    /\ fpc = "start"
    /\ BoundsIdle /\ TrIdle /\ ZoneIdle /\ SecIdle /\ MainIdle /\ ColIdle

DetectFlattened ==
    /\ fpc = "start"
    /\ is_flattened' = detect_flattened_dxf(entity_counts, layers)
    /\ fpc' = "done"
    /\ UNCHANGED <<entity_counts, layers, boundsVars, trVars, zoneVars, secVars, mainVars, colVars>>

NextFlat == DetectFlattened

SpecFlat == InitFlat /\ [][NextFlat]_vars

Total == SumValues(entity_counts)
GeometryTotal ==
    Get(entity_counts, "LINE") + Get(entity_counts, "LWPOLYLINE")
      + Get(entity_counts, "POLYLINE") + Get(entity_counts, "ARC")
      + Get(entity_counts, "CIRCLE") + Get(entity_counts, "SPLINE")
\* insert/total < 0.01, text/total < 0.001, geometry/total > 0.95
RatiosFlat ==
    /\ Total > 0
    /\ 100 * Get(entity_counts, "INSERT") < Total
    /\ 1000 * (Get(entity_counts, "TEXT") + Get(entity_counts, "MTEXT")) < Total
    /\ 100 * GeometryTotal > 95 * Total
LayersOtherThan(names) ==
    Cardinality({i \in 1..Len(layers) : layers[i] \notin names})
Example1 ==
    /\ entity_counts.LINE = 9500 /\ entity_counts.LWPOLYLINE = 400
    /\ Total = 9900 /\ layers = <<"0">>
Example2 ==
    /\ entity_counts.LINE = 700 /\ entity_counts.INSERT = 200
    /\ entity_counts.TEXT = 100 /\ Total = 1000
    /\ layers = <<"A", "B", "C", "D", "E", "F">>

\* C8 as stated: true iff the three ratio conditions hold and fewer than 5
\* layers are named other than '0' and 'Defpoints'; the two examples.
C8_FlattenedIff ==
    (fpc = "done") =>
        /\ is_flattened <=> (RatiosFlat /\ LayersOtherThan({"0", "Defpoints"}) < 5)
        /\ Example1 => is_flattened
        /\ Example2 => ~is_flattened

\* C8 amended: the layers that do not count are '0', 'Defpoints' and
\* 'DEFPOINTS'; the rest as stated.
C8_FlattenedIffUpperCase ==
    (fpc = "done") =>
        /\ is_flattened <=>
              (RatiosFlat /\ LayersOtherThan({"0", "Defpoints", "DEFPOINTS"}) < 5)
        /\ Example1 => is_flattened
        /\ Example2 => ~is_flattened

\* the first example, classified flattened
C8_Witness == fpc = "done" /\ Example1 /\ is_flattened
-----------------------------------------------------------------------------
(* detect_sections_by_x_histogram                                          *)

num_bins == 200

\* np.histogram's range: (min, max), or (min - 0.5, max + 0.5) when they agree
HistRange(xs) ==
    IF SeqMin(xs) = SeqMax(xs)
    THEN <<QSub(Q(SeqMin(xs)), Frac(1, 2)), QAdd(Q(SeqMax(xs)), Frac(1, 2))>>
    ELSE <<Q(SeqMin(xs)), Q(SeqMax(xs))>>

\* bin_edges[i], i in 0..num_bins: np.linspace over the range
BinEdge(xs, i) ==
    LET r == HistRange(xs)
    IN  QAdd(r[1], QDiv(QMul(Q(i), QSub(r[2], r[1])), Q(num_bins)))

\* the bin of a coordinate: bins are half open, the last one is closed
BinOf(r, x) ==
    IF Q(x) = r[2] THEN num_bins - 1
    ELSE QFloor(QDiv(QMul(QSub(Q(x), r[1]), Q(num_bins)), QSub(r[2], r[1])))

\* hist, as a sequence indexed from 1: hist[i + 1] is the count of bin i
Histogram(xs) ==
    LET r    == HistRange(xs)
        bins == [k \in 1..Len(xs) |-> BinOf(r, xs[k])]
    IN  [b \in 1..num_bins |->
            Cardinality({k \in 1..Len(xs) : bins[k] = b - 1})]

\* np.percentile(hist[hist > 0], 5) if len(hist[hist > 0]) > 0 else 1
Threshold(h) ==
    LET nonzero == SelectSeq(h, LAMBDA c : c > 0)
    IN  IF Len(nonzero) > 0 THEN Percentile(nonzero, 5) ELSE Q(1)

\* int(min_gap_ratio * num_bins)
MinGapBins(ratio) == QTrunc(QMul(ratio, Q(num_bins)))

ScanInit ==
    [sections |-> <<>>, in_section |-> FALSE, section_start |-> NoResult,
     gap_count |-> 0]

\* the mutant counts a bin at the threshold as dense (count >= threshold)
ScanStepDenseAtThreshold(st, xs, thr, min_gap_bins, i, count) ==
    IF QLe(thr, Q(count))
    THEN IF ~st.in_section
         THEN [st EXCEPT !.section_start = BinEdge(xs, i), !.in_section = TRUE,
                         !.gap_count = 0]
         ELSE [st EXCEPT !.gap_count = 0]
    ELSE IF st.in_section
         THEN IF st.gap_count + 1 >= min_gap_bins
              THEN [st EXCEPT !.gap_count = st.gap_count + 1,
                              !.sections = Append(st.sections,
                                  <<st.section_start,
                                    BinEdge(xs, i - (st.gap_count + 1) + 1)>>),
                              !.in_section = FALSE]
              ELSE [st EXCEPT !.gap_count = st.gap_count + 1]
         ELSE st

\* the mutant forgets "in_section = False" when it closes a section
ScanStepKeepsSectionOpen(st, xs, thr, min_gap_bins, i, count) ==
    IF QLt(thr, Q(count))
    THEN IF ~st.in_section
         THEN [st EXCEPT !.section_start = BinEdge(xs, i), !.in_section = TRUE,
                         !.gap_count = 0]
         ELSE [st EXCEPT !.gap_count = 0]
    ELSE IF st.in_section
         THEN IF st.gap_count + 1 >= min_gap_bins
              THEN [st EXCEPT !.gap_count = st.gap_count + 1,
                              !.sections = Append(st.sections,
                                  <<st.section_start,
                                    BinEdge(xs, i - (st.gap_count + 1) + 1)>>)]
              ELSE [st EXCEPT !.gap_count = st.gap_count + 1]
         ELSE st

\* the body of the loop over the bins, for bin i (from 0) holding count points
ScanStep(st, xs, thr, min_gap_bins, i, count) ==
    IF QLt(thr, Q(count))
    THEN IF ~st.in_section
         THEN [st EXCEPT !.section_start = BinEdge(xs, i), !.in_section = TRUE,
                         !.gap_count = 0]
         ELSE [st EXCEPT !.gap_count = 0]
    ELSE IF st.in_section
         THEN IF st.gap_count + 1 >= min_gap_bins
              THEN [st EXCEPT !.gap_count = st.gap_count + 1,
                              !.sections = Append(st.sections,
                                  <<st.section_start,
                                    BinEdge(xs, i - (st.gap_count + 1) + 1)>>),
                              !.in_section = FALSE]
              ELSE [st EXCEPT !.gap_count = st.gap_count + 1]
         ELSE st

\* "Handle last section"
CloseTrailing(st, xs) ==
    IF st.in_section
    THEN Append(st.sections, <<st.section_start, BinEdge(xs, num_bins)>>)
    ELSE st.sections

\* np.sum((ax >= xmin) & (ax <= xmax))
PointsIn(xs, sec) ==
    Cardinality({k \in 1..Len(xs) : QLe(sec[1], Q(xs[k])) /\ QLe(Q(xs[k]), sec[2])})

\* the mutant keeps a section only above the minimum (>)
FilterSectionsAboveMinimum(secs, xs, min_points) ==
    SelectSeq(secs, LAMBDA sec : PointsIn(xs, sec) > min_points)

\* "Filter sections by minimum content"
FilterSections(secs, xs, min_points) ==
    SelectSeq(secs, LAMBDA sec : PointsIn(xs, sec) >= min_points)

\* an arithmetic run of n coordinates
Cluster(first, step, n) == [k \in 1..n |-> first + (k - 1) * step]

DefaultMinPoints == 1000
DefaultGapRatio == Frac(1, 10)

\* Two clusters of n evenly spread points each, the second one `offset` to the
\* right of the first.  With the world unit at 0.1, the first entry is 1000
\* points over [0, 99.9] and 1000 over [500, 599.9]; the second one reaches
\* 100 and 600.
TwoClusterInputs ==
    {[xs |-> Cluster(0, c.step, c.n) \o Cluster(c.offset, c.step, c.n),
      ratio |-> DefaultGapRatio, min_points |-> c.min_points] :
        c \in {[n |-> 1000, step |-> 1, offset |-> 5000, min_points |-> DefaultMinPoints],
               [n |-> 1001, step |-> 1, offset |-> 5000, min_points |-> DefaultMinPoints],
               [n |-> 1000, step |-> 7, offset |-> 40000, min_points |-> DefaultMinPoints],
               [n |-> 60, step |-> 1, offset |-> 300, min_points |-> 50]}}
OtherSectionInputs ==
    {[xs |-> <<0, 5, 9>>, ratio |-> DefaultGapRatio, min_points |-> DefaultMinPoints],
     [xs |-> <<4, 4, 4>>, ratio |-> DefaultGapRatio, min_points |-> 2],
     [xs |-> Rep(0, 5) \o <<1, 2>> \o Rep(100, 4) \o <<98>>,
      ratio |-> DefaultGapRatio, min_points |-> 3],
     \* 200 bins of width 1: short low runs at bins 1 and 11, long ones after
     [xs |-> Rep(0, 3) \o Rep(2, 3) \o Rep(10, 3) \o <<11>> \o Rep(12, 3)
                \o Rep(200, 3),
      ratio |-> Frac(1, 100), min_points |-> 3],
     \* the same cloud, the last cluster below the minimum
     [xs |-> Rep(0, 3) \o Rep(2, 3) \o Rep(10, 3) \o <<11>> \o Rep(12, 3)
                \o Rep(200, 3),
      ratio |-> Frac(1, 100), min_points |-> 4],
     \* int(min_gap_ratio * num_bins) = 0: the first low bin closes
     [xs |-> Rep(-7, 3) \o <<50>> \o Rep(93, 3), ratio |-> Q(0), min_points |-> 3],
     \* a gap ratio above 1: no run of low bins is long enough
     [xs |-> Rep(0, 3) \o <<1>> \o Rep(400, 3), ratio |-> Frac(3, 2), min_points |-> 3]}

InitSections ==
    /\ \E inp \in TwoClusterInputs \cup OtherSectionInputs :
          /\ sec_x = inp.xs
          /\ min_gap_ratio = inp.ratio
          /\ min_points_per_section = inp.min_points
    /\ hist = <<>> /\ threshold = Q(0) /\ bin_i = 0 /\ scan = <<>>
    /\ valid_sections = <<>> /\ spc = "start"
    /\ BoundsIdle /\ TrIdle /\ ZoneIdle /\ FlatIdle /\ MainIdle /\ ColIdle

\* "if len(all_x) < min_points_per_section: return []"
ReturnTooFew ==
    /\ spc = "start"
    /\ Len(sec_x) < min_points_per_section
    /\ valid_sections' = <<>>
    /\ spc' = "done"
    /\ UNCHANGED <<sec_x, min_gap_ratio, min_points_per_section, hist, threshold,
                   bin_i, scan, boundsVars, trVars, zoneVars, flatVars, mainVars, colVars>>

BuildHistogram ==
    /\ spc = "start"
    /\ ~(Len(sec_x) < min_points_per_section)
    /\ hist' = Histogram(sec_x)
    /\ threshold' = Threshold(hist')
    /\ scan' = ScanInit
    /\ bin_i' = 0
    /\ spc' = "scan"
    /\ UNCHANGED <<sec_x, min_gap_ratio, min_points_per_section, valid_sections,
                   boundsVars, trVars, zoneVars, flatVars, mainVars, colVars>>

ScanBin ==
    /\ spc = "scan"
    /\ bin_i < num_bins
    /\ scan' = ScanStep(scan, sec_x, threshold, MinGapBins(min_gap_ratio),
                        bin_i, hist[bin_i + 1])
    /\ bin_i' = bin_i + 1
    /\ UNCHANGED <<sec_x, min_gap_ratio, min_points_per_section, hist, threshold,
                   valid_sections, spc, boundsVars, trVars, zoneVars, flatVars, mainVars, colVars>>

FilterAndReturn ==
    /\ spc = "scan"
    /\ bin_i = num_bins
    /\ valid_sections' = FilterSections(CloseTrailing(scan, sec_x), sec_x,
                                        min_points_per_section)
    /\ scan' = [scan EXCEPT !.sections = CloseTrailing(scan, sec_x)]
    /\ spc' = "done"
    /\ UNCHANGED <<sec_x, min_gap_ratio, min_points_per_section, hist, threshold,
                   bin_i, boundsVars, trVars, zoneVars, flatVars, mainVars, colVars>>

NextSections ==
    \/ ReturnTooFew
    \/ BuildHistogram
    \/ ScanBin
    \/ FilterAndReturn

SpecSections == InitSections /\ [][NextSections]_vars

\* the input is one of the two-cluster clouds: n points, then n points
IsTwoClusterInput ==
    \E inp \in TwoClusterInputs :
        /\ sec_x = inp.xs
        /\ min_gap_ratio = inp.ratio
        /\ min_points_per_section = inp.min_points
ClusterSize == Len(sec_x) \div 2
FirstCluster == SubSeq(sec_x, 1, ClusterSize)
SecondCluster == SubSeq(sec_x, ClusterSize + 1, Len(sec_x))
BinWidth == QSub(BinEdge(sec_x, 1), BinEdge(sec_x, 0))
\* the empty interval between the clusters is wider than minGapRatio of the range
GapIsWide ==
    QLt(QMul(min_gap_ratio, Q(SeqMax(sec_x) - SeqMin(sec_x))),
        Q(SeqMin(SecondCluster) - SeqMax(FirstCluster)))
Contains(sec, xs) ==
    \A k \in 1..Len(xs) : QLe(sec[1], Q(xs[k])) /\ QLe(Q(xs[k]), sec[2])

\* C7: two evenly spread clusters of equal size N >= minPointsPerSection,
\* separated by an empty interval wider than minGapRatio of the X range, give
\* exactly 2 sections; each contains every point of its cluster and neither
\* reaches into the empty interval by more than one bin width.
C7_TwoClustersTwoSections ==
    (spc = "done" /\ IsTwoClusterInput /\ GapIsWide
        /\ ClusterSize >= min_points_per_section) =>
        /\ Len(valid_sections) = 2
        /\ Contains(valid_sections[1], FirstCluster)
        /\ Contains(valid_sections[2], SecondCluster)
        /\ QLe(valid_sections[1][2], QAdd(Q(SeqMax(FirstCluster)), BinWidth))
        /\ QLe(QSub(Q(SeqMin(SecondCluster)), BinWidth), valid_sections[2][1])

\* C11: the returned sections are in strictly ascending X order and do not
\* overlap: each has start <= end, each ends at or before the start of the
\* next one, and each lies within [min(X), max(X)].
C11_SectionsOrderedDisjoint ==
    (spc = "done") =>
        /\ \A k \in 1..Len(valid_sections) :
              /\ QLe(valid_sections[k][1], valid_sections[k][2])
              /\ QLe(Q(SeqMin(sec_x)), valid_sections[k][1])
              /\ QLe(valid_sections[k][2], Q(SeqMax(sec_x)))
        /\ \A k \in 1..(Len(valid_sections) - 1) :
              /\ QLt(valid_sections[k][1], valid_sections[k + 1][1])
              /\ QLe(valid_sections[k][2], valid_sections[k + 1][1])

\* three sections come back, the first one starting at min(X) and the last
\* one ending at max(X)
C11_Witness ==
    /\ spc = "done"
    /\ Len(valid_sections) = 3
    /\ valid_sections[1][1] = Q(SeqMin(sec_x))
    /\ valid_sections[3][2] = Q(SeqMax(sec_x))

\* bin i (from 0) is low: its count is at most the threshold
LowBin(i) == QLe(Q(hist[i + 1]), threshold)
\* the number of consecutive low bins that end with bin i
LowRun(i) ==
    CHOOSE n \in 0..(i + 1) :
        /\ \A j \in (i - n + 1)..i : LowBin(j)
        /\ n = i + 1 \/ ~LowBin(i - n)

\* C17: in the scan, a run of low bins closes the open section exactly when
\* its length reaches int(minGapRatio * numBins), and the section then ends at
\* the left edge of the run's first bin; a shorter run followed by a dense bin
\* leaves the section open and resets the gap counter; the next section opens
\* at the left edge of the first dense bin after the closure; a section still
\* open after the last bin is closed at the last bin edge.
C17_ScanClosesAtGap ==
    [][/\ (spc = "scan" /\ bin_i < num_bins) =>
            LET low      == LowBin(bin_i)
                run      == LowRun(bin_i)
                min_gap  == MinGapBins(min_gap_ratio)
                same     == /\ scan'.sections = scan.sections
                            /\ scan'.section_start = scan.section_start
            IN  /\ (scan.in_section /\ low /\ run >= min_gap) =>
                      /\ ~scan'.in_section
                      /\ scan'.sections =
                            Append(scan.sections,
                                   <<scan.section_start,
                                     BinEdge(sec_x, bin_i - run + 1)>>)
                /\ (scan.in_section /\ low /\ run < min_gap) =>
                      scan'.in_section /\ same
                /\ (scan.in_section /\ ~low) =>
                      scan'.in_section /\ scan'.gap_count = 0 /\ same
                /\ (~scan.in_section /\ ~low) =>
                      /\ scan'.in_section
                      /\ scan'.section_start = BinEdge(sec_x, bin_i)
                      /\ scan'.sections = scan.sections
                /\ (~scan.in_section /\ low) =>
                      ~scan'.in_section /\ scan'.sections = scan.sections
       /\ (spc = "scan" /\ bin_i = num_bins) =>
            scan'.sections =
                IF scan.in_section
                THEN Append(scan.sections,
                            <<scan.section_start, BinEdge(sec_x, num_bins)>>)
                ELSE scan.sections
      ]_vars

\* the scan of the cloud with gap ratio 1/100 is over: the low run of bin 1
\* did not close the first section, the run of bins 3 and 4 closed it at the
\* left edge of bin 3, a section opened again at bin 10, and the third
\* section was closed at the last edge
C17_Witness ==
    /\ spc = "done"
    /\ MinGapBins(min_gap_ratio) = 2
    /\ LowBin(1) /\ ~LowBin(2) /\ LowBin(3) /\ LowBin(4)
    /\ Len(scan.sections) = 3
    /\ scan.sections[1] = <<BinEdge(sec_x, 0), BinEdge(sec_x, 3)>>
    /\ scan.sections[2][1] = BinEdge(sec_x, 10)
    /\ scan.sections[3][2] = BinEdge(sec_x, num_bins)

\* the candidate sections of the scan, once it is over
Candidates == scan.sections
SectionWidth(sec) == QSub(sec[2], sec[1])
TotalWidth == Q(SeqMax(sec_x) - SeqMin(sec_x))
\* minimum section widths, as ratios of the X range, a caller might configure
MinSectionWidthRatios == {Frac(1, 100), Frac(1, 20)}

\* C18 as stated: every returned section has at least the minimum point
\* count and at least the configured minimum width, whichever minimum width
\* is configured.
C18_PointsAndWidthMinimum ==
    (spc = "done") =>
        \A k \in 1..Len(valid_sections) :
            /\ PointsIn(sec_x, valid_sections[k]) >= min_points_per_section
            /\ \A ratio \in MinSectionWidthRatios :
                  QLe(QMul(ratio, TotalWidth), SectionWidth(valid_sections[k]))

\* C18 amended: a candidate section is returned exactly when it holds at
\* least the minimum number of points (both ends included); its width plays
\* no part, and the returned sections keep the order of the candidates.
C18_PointsMinimumOnly ==
    (spc = "done" /\ Len(sec_x) >= min_points_per_section) =>
        /\ \A k \in 1..Len(Candidates) :
              (Cardinality({j \in 1..Len(sec_x) :
                               /\ QLe(Candidates[k][1], Q(sec_x[j]))
                               /\ QLe(Q(sec_x[j]), Candidates[k][2])})
                  >= min_points_per_section)
              <=> Candidates[k] \in Range(valid_sections)
        /\ Range(valid_sections) \subseteq Range(Candidates)
        /\ Len(valid_sections) <= Len(Candidates)

\* of three candidates the last one, below the minimum, is discarded, and a
\* returned one is narrower than 1/20 of the X range
C18_Witness ==
    /\ spc = "done"
    /\ Len(sec_x) >= min_points_per_section
    /\ Len(Candidates) = 3
    /\ valid_sections = SubSeq(Candidates, 1, 2)
    /\ QLt(SectionWidth(valid_sections[1]), QMul(Frac(1, 20), TotalWidth))
-----------------------------------------------------------------------------
(* detect_sections_by_x_histogram, render_dxf_sections and                 *)
(* split_into_hybrid_zones as main calls them: run to completion           *)

RECURSIVE ScanFrom(_, _, _, _, _, _)
ScanFrom(st, xs, h, thr, min_gap_bins, i) ==
    IF i = num_bins THEN st
    ELSE ScanFrom(ScanStep(st, xs, thr, min_gap_bins, i, h[i + 1]),
                  xs, h, thr, min_gap_bins, i + 1)

detect_sections_by_x_histogram(xs, ratio, min_points) ==
    IF Len(xs) < min_points THEN <<>>
    ELSE LET h     == Histogram(xs)
             final == ScanFrom(ScanInit, xs, h, Threshold(h), MinGapBins(ratio), 0)
         IN  FilterSections(CloseTrailing(final, xs), xs, min_points)

\* render_section: the section's bounds with the 2% margin
render_section(section_bounds, y_bounds) ==
    LET xpad == QMul(QSub(section_bounds[2], section_bounds[1]), Frac(2, 100))
        ypad == QMul(QSub(y_bounds[2], y_bounds[1]), Frac(2, 100))
    IN  <<QSub(section_bounds[1], xpad), QAdd(section_bounds[2], xpad),
          QSub(y_bounds[1], ypad), QAdd(y_bounds[2], ypad)>>

None == [none |-> TRUE]

\* render_dxf_sections on the collected point cloud; None without points
render_dxf_sections(xs, ys) ==
    IF Len(xs) = 0 THEN None
    ELSE LET ymin     == Percentile(ys, 1)
             ymax     == Percentile(ys, 99)
             ypad     == QMul(QSub(ymax, ymin), Frac(1, 10))
             y_bounds == <<QSub(ymin, ypad), QAdd(ymax, ypad)>>
             detected == detect_sections_by_x_histogram(xs, DefaultGapRatio,
                                                        DefaultMinPoints)
             sections == IF Len(detected) = 0
                         THEN <<<<Percentile(xs, 1), Percentile(xs, 99)>>>>
                         ELSE detected
         IN  [success |-> TRUE,
              sections |-> [k \in 1..Len(sections) |->
                              [section_id |-> k - 1,
                               bounds |-> render_section(sections[k], y_bounds)]],
              y_bounds |-> y_bounds]

RECURSIVE EmitZones(_, _, _, _)
EmitZones(cfgs, gb, size, m) ==
    IF cfgs = <<>> THEN <<>>
    ELSE LET c == CropBox(gb, size, Head(cfgs).bounds)
         IN  (IF InvalidCrop(c) \/ TooSmall(c) THEN <<>>
              ELSE <<HybridZone(Head(cfgs), c, m)>>)
             \o EmitZones(Tail(cfgs), gb, size, m)

split_into_hybrid_zones(size, m, gb, n, overlap) ==
    LET zones == EmitZones(calculate_zones_with_overlap(gb, n, overlap), gb, size, m)
    IN  [global_bounds |-> gb, zones |-> zones, total_zones |-> Len(zones)]

-----------------------------------------------------------------------------
(* main.  The drawing is given by what main reads of it: the entity counts *)
(* by type, the layer names, the point cloud collect_all_points returns,   *)
(* the annotation entities, and the size of the image the renderer saves.  *)

LargeEntityCount == 100000
MainNumZones == 10
MainOverlap == Frac(5, 100)

\* the mutant takes the section branch for every flattened drawing
UseSectionsAnySize(flag, flattened, total_entities) == flag \/ flattened

\* use_sections = args.sections or (is_flattened and total_entities > 100000)
UseSections(flag, flattened, total_entities) ==
    flag \/ (flattened /\ total_entities > LargeEntityCount)

MainCounts ==
    {[LINE |-> 200000], [LINE |-> 100000], [LINE |-> 100001, LWPOLYLINE |-> 400],
     [LINE |-> 200000, INSERT |-> 5000], [LINE |-> 9500, LWPOLYLINE |-> 400],
     [LINE |-> 700, INSERT |-> 200, TEXT |-> 100], [LINE |-> 95, HATCH |-> 5],
     [TEXT |-> 3]}
MainLayers == {<<"0">>, <<"A", "B", "C", "D", "E", "F">>}
MainClouds ==
    {<< <<>>, <<>> >>,
     << <<0, 1000>>, <<0, 10>> >>,
     << <<0, 10>>, <<0, 10>> >>,
     << <<0, 10, 20>>, <<0, 100, 50>> >>,
     << <<0, 60, 30, 30>>, <<0, 10, 5, 5>> >>,
     \* 102 points, one of them far to the right of the others
     << Rep(0, 50) \o Rep(10, 51) \o <<1000>>, Rep(0, 51) \o Rep(10, 51) >>}
MainMsps ==
    {<<>>,
     <<[etype |-> "TEXT", ok |-> TRUE, insert |-> <<5, 5>>, payload |-> "t"],
       [etype |-> "INSERT", ok |-> TRUE, insert |-> <<10, 0>>, payload |-> "b"]>>}
MainImages == {<<300, 300>>, <<2000, 40>>}

InitMain ==
    /\ args_sections \in BOOLEAN
    /\ entity_counts \in MainCounts
    /\ layers \in MainLayers
    /\ \E cloud \in MainClouds : all_x = cloud[1] /\ all_y = cloud[2]
    /\ msp \in MainMsps
    /\ img_size \in MainImages
    /\ is_flattened = FALSE /\ fpc = "idle"
    /\ use_sections = FALSE /\ result = NoResult /\ mpc = "start"
    /\ bounds = NoResult
    /\ global_bounds = NoResult /\ num_zones = MainNumZones
    /\ overlap_percent = MainOverlap
    /\ zones_config = <<>> /\ zi = 0 /\ zpc = "idle" /\ hybrid_zones = <<>>
    /\ TrIdle /\ SecIdle /\ ColIdle

\* "Check if flattened" and the choice of the branch
MainClassify ==
    /\ mpc = "start"
    /\ is_flattened' = detect_flattened_dxf(entity_counts, layers)
    /\ use_sections' = UseSections(args_sections, is_flattened',
                                   SumValues(entity_counts))
    /\ mpc' = "classified"
    /\ UNCHANGED <<entity_counts, layers, fpc, args_sections, result,
                   boundsVars, trVars, zoneVars, secVars, colVars>>

\* the section branch with no geometry points: sys.exit(1)
MainSectionsExit ==
    /\ mpc = "classified" /\ use_sections
    /\ render_dxf_sections(all_x, all_y) = None
    /\ mpc' = "exit_1"
    /\ UNCHANGED <<args_sections, use_sections, result,
                   boundsVars, trVars, zoneVars, flatVars, secVars, colVars>>

\* the section branch
MainSections ==
    /\ mpc = "classified" /\ use_sections
    /\ LET section_result == render_dxf_sections(all_x, all_y)
       IN  /\ section_result # None
           /\ result' = [success |-> TRUE, version |-> "v8-sections",
                         mode |-> "sections", is_flattened |-> TRUE,
                         total_entities |-> SumValues(entity_counts),
                         sections |-> section_result.sections,
                         section_count |-> Len(section_result.sections),
                         entity_counts |-> entity_counts, layers |-> layers]
    /\ mpc' = "done"
    /\ UNCHANGED <<args_sections, use_sections,
                   boundsVars, trVars, zoneVars, flatVars, secVars, colVars>>

\* the hybrid branch: bounds, render, the overlapping zone grid
MainHybrid ==
    /\ mpc = "classified" /\ ~use_sections
    /\ global_bounds' = IF Len(all_x) = 0
                        THEN <<Q(0), Q(100), Q(0), Q(100)>>
                        ELSE calculate_smart_bounds(all_x, all_y, DefaultMargin)
    /\ LET hybrid_data == split_into_hybrid_zones(img_size, msp, global_bounds',
                                                  MainNumZones, MainOverlap)
       IN  result' = [success |-> TRUE, version |-> "v8-hybrid",
                      mode |-> "hybrid", is_flattened |-> is_flattened,
                      hybrid_data |-> hybrid_data,
                      total_entities |-> SumValues(entity_counts)]
    /\ mpc' = "done"
    /\ UNCHANGED <<args_sections, use_sections, num_zones, overlap_percent,
                   img_size, msp, zones_config, zi, zpc, hybrid_zones,
                   boundsVars, trVars, flatVars, secVars, colVars>>

NextMain ==
    \/ MainClassify
    \/ MainSectionsExit
    \/ MainSections
    \/ MainHybrid

SpecMain == InitMain /\ [][NextMain]_vars

\* the branch main took, once it has taken one
BranchTaken == mpc \in {"done", "exit_1"}
SplitMode == IF use_sections THEN "SECTIONS" ELSE "GRID"
\* width / height of the bounds calculate_smart_bounds estimates for the cloud
EstimatedBounds == calculate_smart_bounds(all_x, all_y, DefaultMargin)
EstimatedAspect ==
    QDiv(QSub(EstimatedBounds[2], EstimatedBounds[1]),
         QSub(EstimatedBounds[4], EstimatedBounds[3]))

\* C9 as stated: SECTIONS exactly when width/height of the estimated bounds
\* exceeds 5, whatever the flattened classification and the entity count.
C9_ModeFromAspect ==
    BranchTaken => (SplitMode = "SECTIONS" <=> QLt(Q(5), EstimatedAspect))

\* C9 amended: SECTIONS exactly when --sections is given or the drawing is
\* classified flattened and has more than 100000 entities; GRID otherwise,
\* whatever the aspect ratio of the estimated bounds.
C9_ModeFromFlagAndClass ==
    BranchTaken =>
        /\ SplitMode = "SECTIONS" <=>
              (args_sections \/ (is_flattened /\ SumValues(entity_counts) > 100000))
        /\ (mpc = "done") => (result.mode = "sections" <=> SplitMode = "SECTIONS")
        /\ (mpc = "done") => (result.mode = "hybrid" <=> SplitMode = "GRID")

\* a wide cloud (aspect over 5) of a flattened drawing, split by the grid
C9_Witness ==
    /\ mpc = "done" /\ result.mode = "hybrid"
    /\ QLt(Q(5), EstimatedAspect)
    /\ is_flattened /\ ~args_sections

\* the gap detector finds no section in a non-empty cloud
NoSectionDetected ==
    /\ Len(all_x) > 0
    /\ detect_sections_by_x_histogram(all_x, DefaultGapRatio, DefaultMinPoints) = <<>>
SectionsDone == mpc = "done" /\ result.mode = "sections"

\* C12: when the gap detector yields no section for a non-empty cloud, the
\* section pipeline returns exactly one section and no collected point lies
\* outside its X range (the range as rendered, margin included).
C12_FallbackSpansFullRange ==
    (SectionsDone /\ NoSectionDetected) =>
        /\ Len(result.sections) = 1
        /\ \A k \in 1..Len(all_x) :
              /\ QLe(result.sections[1].bounds[1], Q(all_x[k]))
              /\ QLe(Q(all_x[k]), result.sections[1].bounds[2])

\* C13: with no geometry point collected, a run in either mode ends with a
\* success result (zero or more regions), never with an error exit.
C13_EmptyCloudSucceeds ==
    (BranchTaken /\ Len(all_x) = 0) =>
        /\ mpc = "done"
        /\ result.success
        /\ result.mode = "sections" => Len(result.sections) >= 0
        /\ result.mode = "hybrid" => result.hybrid_data.total_zones >= 0

\* C20: the is_flattened value main writes to the result is the value
\* detect_flattened_dxf computed for the drawing, in both modes; with section
\* mode forced by --sections on a drawing classified as not flattened, the
\* result reports is_flattened = false.
C20_ResultReportsClassification ==
    (mpc = "done") =>
        /\ result.is_flattened = is_flattened
        /\ result.is_flattened = detect_flattened_dxf(entity_counts, layers)
-----------------------------------------------------------------------------
(* collect_all_points and collect_geometry_batch.  An entity is a record:  *)
(* its type tag; its points (start and end, the vertices or control        *)
(* points, or the centre), a point being <<x, y>>, <<x>> when reading its  *)
(* y raises and <<>> when reading the point raises; its radius <<r>> and   *)
(* angles <<start, end>>, or <<>> when reading them raises; for an INSERT, *)
(* the entities virtual_entities() yields.                                 *)

Entity(etype, pts) ==
    [etype |-> etype, pts |-> pts, radius |-> <<>>, angles |-> <<>>,
     closed |-> FALSE, children |-> <<>>]
Round(etype, centre, radius, angles) ==
    [Entity(etype, <<centre>>) EXCEPT !.radius = radius, !.angles = angles]
Insert(children) == [Entity("INSERT", <<>>) EXCEPT !.children = children]

HasX(pt) == Len(pt) >= 1
HasY(pt) == Len(pt) >= 2

\* what one call appends to all_x and all_y, and whether it raises
Nothing == [xs |-> <<>>, ys |-> <<>>, raised |-> FALSE]
Raised == [xs |-> <<>>, ys |-> <<>>, raised |-> TRUE]

\* "all_x.append(pt[0]); all_y.append(pt[1])" for each point in turn, up to
\* the first read that raises
RECURSIVE AppendEach(_)
AppendEach(pts) ==
    IF pts = <<>> THEN Nothing
    ELSE LET pt == Head(pts)
         IN  IF ~HasX(pt) THEN Raised
             ELSE IF ~HasY(pt)
                  THEN [xs |-> <<pt[1]>>, ys |-> <<>>, raised |-> TRUE]
                  ELSE LET rest == AppendEach(Tail(pts))
                       IN  [xs |-> <<pt[1]>> \o rest.xs,
                            ys |-> <<pt[2]>> \o rest.ys,
                            raised |-> rest.raised]

\* the try block of collect(e)
CollectTry(e) ==
    CASE e.etype = "LINE" ->
           \* all_x.extend([start.x, end.x]), then all_y.extend([start.y, end.y])
           IF ~HasX(e.pts[1]) \/ ~HasX(e.pts[2]) THEN Raised
           ELSE IF ~HasY(e.pts[1]) \/ ~HasY(e.pts[2])
                THEN [xs |-> <<e.pts[1][1], e.pts[2][1]>>, ys |-> <<>>,
                      raised |-> TRUE]
                ELSE [xs |-> <<e.pts[1][1], e.pts[2][1]>>,
                      ys |-> <<e.pts[1][2], e.pts[2][2]>>, raised |-> FALSE]
      [] e.etype = "LWPOLYLINE" -> AppendEach(e.pts)
      [] e.etype = "POLYLINE" -> [AppendEach(e.pts) EXCEPT !.raised = FALSE]
      [] e.etype \in {"CIRCLE", "ARC", "POINT", "ELLIPSE"} -> AppendEach(e.pts)
      [] OTHER -> Nothing

\* the mutant has no "except: pass" around the body of collect
CollectNoCatch(e) == CollectTry(e)

\* collect(e): the try block, "except: pass"
collect(e) == [CollectTry(e) EXCEPT !.raised = FALSE]

\* "for ve in e.virtual_entities(): collect(ve)", up to a call that raises
RECURSIVE CollectEach(_)
CollectEach(ves) ==
    IF ves = <<>> THEN Nothing
    ELSE LET r == collect(Head(ves))
         IN  IF r.raised THEN r
             ELSE LET rest == CollectEach(Tail(ves))
                  IN  [xs |-> r.xs \o rest.xs, ys |-> r.ys \o rest.ys,
                       raised |-> rest.raised]

\* the body of "for e in msp" in collect_all_points
PointsOf(e) ==
    IF e.etype = "INSERT"
    THEN [CollectEach(e.children) EXCEPT !.raised = FALSE]
    ELSE collect(e)

\* the concatenation of the sequences ss[lo], ..., ss[hi]
RECURSIVE Concat(_, _, _)
Concat(ss, lo, hi) ==
    IF lo > hi THEN <<>>
    ELSE IF lo = hi THEN ss[lo]
    ELSE LET mid == (lo + hi) \div 2
         IN  Concat(ss, lo, mid) \o Concat(ss, mid + 1, hi)

\* collect_all_points(msp), run to completion or to an uncaught exception:
\* the turns of the loop up to the first one that raises
collect_all_points(m) ==
    LET turns == [k \in 1..Len(m) |-> PointsOf(m[k])]
        raises == {k \in 1..Len(m) : turns[k].raised}
        last == IF raises = {} THEN Len(m)
                ELSE CHOOSE k \in raises : \A j \in raises : k <= j
    IN  [xs |-> Concat([k \in 1..last |-> turns[k].xs], 1, last),
         ys |-> Concat([k \in 1..last |-> turns[k].ys], 1, last),
         raised |-> raises # {}]

\* lines_x and lines_y hold a coordinate as <<v>> and the separator None as <<>>
PenUp == <<>>
NoBounds == <<>>

\* what one call adds to the batch arrays, and whether it raises
NoGeometry ==
    [lines_x |-> <<>>, lines_y |-> <<>>, circles |-> <<>>, arcs |-> <<>>,
     raised |-> FALSE]
GeometryRaised == [NoGeometry EXCEPT !.raised = TRUE]
GeoCat(a, b) ==
    [lines_x |-> a.lines_x \o b.lines_x, lines_y |-> a.lines_y \o b.lines_y,
     circles |-> a.circles \o b.circles, arcs |-> a.arcs \o b.arcs,
     raised |-> b.raised]

in_bounds(b, x, y) == b[1] <= x /\ x <= b[2] /\ b[3] <= y /\ y <= b[4]

add_line(b, x1, y1, x2, y2) ==
    IF b = NoBounds \/ in_bounds(b, x1, y1) \/ in_bounds(b, x2, y2)
    THEN [NoGeometry EXCEPT !.lines_x = <<<<x1>>, <<x2>>, PenUp>>,
                            !.lines_y = <<<<y1>>, <<y2>>, PenUp>>]
    ELSE NoGeometry

\* "for i in range(len(pts) - 1): add_line(pts[i][0], pts[i][1], pts[i+1][0],
\* pts[i+1][1])", up to the first read that raises
RECURSIVE AddSegments(_, _)
AddSegments(b, pts) ==
    IF Len(pts) < 2 THEN NoGeometry
    ELSE IF ~HasY(pts[1]) \/ ~HasY(pts[2]) THEN GeometryRaised
    ELSE LET seg == add_line(b, pts[1][1], pts[1][2], pts[2][1], pts[2][2])
             rest == AddSegments(b, Tail(pts))
         IN  GeoCat(seg, rest)

\* the try block of process_entity(e)
ProcessTry(b, e) ==
    CASE e.etype = "LINE" ->
           IF ~HasY(e.pts[1]) \/ ~HasY(e.pts[2]) THEN GeometryRaised
           ELSE add_line(b, e.pts[1][1], e.pts[1][2], e.pts[2][1], e.pts[2][2])
      [] e.etype = "LWPOLYLINE" ->
           LET n    == Len(e.pts)
               segs == AddSegments(b, e.pts)
           IN  IF segs.raised \/ n < 2 \/ ~e.closed THEN segs
               ELSE GeoCat(segs, add_line(b, e.pts[n][1], e.pts[n][2],
                                             e.pts[1][1], e.pts[1][2]))
      [] e.etype = "POLYLINE" ->
           \* the list of the vertices is built first, inside its own try
           IF \E k \in 1..Len(e.pts) : ~HasY(e.pts[k]) THEN NoGeometry
           ELSE AddSegments(b, e.pts)
      [] e.etype = "CIRCLE" ->
           IF ~HasY(e.pts[1]) THEN GeometryRaised
           ELSE IF b = NoBounds \/ in_bounds(b, e.pts[1][1], e.pts[1][2])
                THEN IF e.radius = <<>> THEN GeometryRaised
                     ELSE [NoGeometry EXCEPT !.circles =
                             << <<e.pts[1][1], e.pts[1][2], e.radius[1]>> >>]
                ELSE NoGeometry
      [] e.etype = "ARC" ->
           IF ~HasY(e.pts[1]) THEN GeometryRaised
           ELSE IF b = NoBounds \/ in_bounds(b, e.pts[1][1], e.pts[1][2])
                THEN IF e.radius = <<>> \/ e.angles = <<>> THEN GeometryRaised
                     ELSE [NoGeometry EXCEPT !.arcs =
                             << <<e.pts[1][1], e.pts[1][2], e.radius[1],
                                  e.angles[1], e.angles[2]>> >>]
                ELSE NoGeometry
      [] e.etype = "SPLINE" -> [AddSegments(b, e.pts) EXCEPT !.raised = FALSE]
      [] OTHER -> NoGeometry

\* process_entity(e): the try block, "except Exception: pass"
process_entity(b, e) == [ProcessTry(b, e) EXCEPT !.raised = FALSE]

\* "for nested in ve.virtual_entities(): process_entity(nested)"
RECURSIVE ProcessEach(_, _)
ProcessEach(b, ves) ==
    IF ves = <<>> THEN NoGeometry
    ELSE LET r == process_entity(b, Head(ves))
         IN  IF r.raised THEN r ELSE GeoCat(r, ProcessEach(b, Tail(ves)))

\* the body of "for ve in entity.virtual_entities()"
ProcessVirtual(b, ve) ==
    IF ve.etype = "INSERT"
    THEN [ProcessEach(b, ve.children) EXCEPT !.raised = FALSE]
    ELSE process_entity(b, ve)

RECURSIVE ProcessVirtuals(_, _)
ProcessVirtuals(b, ves) ==
    IF ves = <<>> THEN NoGeometry
    ELSE LET r == ProcessVirtual(b, Head(ves))
         IN  IF r.raised THEN r ELSE GeoCat(r, ProcessVirtuals(b, Tail(ves)))

\* the mutant expands the INSERTs of modelspace one level only
BatchOfOneLevel(b, e) ==
    IF e.etype = "INSERT"
    THEN [ProcessEach(b, e.children) EXCEPT !.raised = FALSE]
    ELSE IF e.etype \notin {"TEXT", "MTEXT", "ATTRIB", "ATTDEF"}
         THEN process_entity(b, e)
         ELSE NoGeometry

\* the body of "for entity in msp" in collect_geometry_batch
BatchOf(b, e) ==
    IF e.etype = "INSERT"
    THEN [ProcessVirtuals(b, e.children) EXCEPT !.raised = FALSE]
    ELSE IF e.etype \notin {"TEXT", "MTEXT", "ATTRIB", "ATTDEF"}
         THEN process_entity(b, e)
         ELSE NoGeometry

\* collect_geometry_batch(msp, bounds), run to completion or to an uncaught
\* exception: the turns of the loop up to the first one that raises
collect_geometry_batch(m, b) ==
    LET turns == [k \in 1..Len(m) |-> BatchOf(b, m[k])]
        raises == {k \in 1..Len(m) : turns[k].raised}
        last == IF raises = {} THEN Len(m)
                ELSE CHOOSE k \in raises : \A j \in raises : k <= j
    IN  [lines_x |-> Concat([k \in 1..last |-> turns[k].lines_x], 1, last),
         lines_y |-> Concat([k \in 1..last |-> turns[k].lines_y], 1, last),
         circles |-> Concat([k \in 1..last |-> turns[k].circles], 1, last),
         arcs |-> Concat([k \in 1..last |-> turns[k].arcs], 1, last),
         raised |-> raises # {}]

\* Well-formed entities of modelspace: a line, a circle, a closed
\* LWPOLYLINE, a POLYLINE, and a line outside the batch bounds.  BulkLine is
\* the line a large drawing repeats.
BulkLine == Entity("LINE", << <<27, 28>>, <<29, 30>> >>)
WellFormed ==
    {Entity("LINE", << <<1, 2>>, <<3, 4>> >>),
     Round("CIRCLE", <<5, 6>>, <<2>>, <<>>),
     [Entity("LWPOLYLINE", << <<7, 8>>, <<9, 10>>, <<11, 12>> >>)
         EXCEPT !.closed = TRUE],
     Entity("POLYLINE", << <<19, 20>>, <<21, 22>> >>),
     Entity("LINE", << <<300, 301>>, <<302, 303>> >>)}

\* Malformed entities, coordinates from 100 to 199: a line without its end,
\* a line whose y raises, an LWPOLYLINE whose third point has one component,
\* a circle without radius, a POLYLINE whose second vertex has no location
LineNoY == Entity("LINE", << <<103>>, <<104>> >>)
Malformed ==
    {Entity("LINE", << <<101, 102>>, <<>> >>),
     LineNoY,
     Entity("LWPOLYLINE", << <<105, 106>>, <<107, 108>>, <<109>> >>),
     Round("CIRCLE", <<111, 112>>, <<>>, <<>>),
     Entity("POLYLINE", << <<113, 114>>, <<>> >>)}

\* Blocks.  Coordinates tell the nesting depth of a primitive: 40 to 59 one
\* INSERT deep, 60 to 79 two deep, 80 to 99 three deep; 150 to 199 when the
\* primitive is malformed.
Block1 ==
    Insert(<<Entity("LINE", << <<41, 42>>, <<43, 44>> >>),
             Entity("LWPOLYLINE", << <<151, 152>>, <<153, 154>>, <<155>> >>),
             Round("ARC", <<45, 46>>, <<3>>, <<0, 90>>),
             Round("ARC", <<157, 158>>, <<3>>, <<>>),
             Round("POINT", <<47, 48>>, <<>>, <<>>),
             Entity("TEXT", << <<49, 50>> >>)>>)
Block2 ==
    Insert(<<Insert(<<Entity("LINE", << <<61, 62>>, <<63, 64>> >>),
                      Insert(<<Entity("LINE", << <<81, 82>>, <<83, 84>> >>)>>),
                      Entity("SPLINE", << <<65, 66>>, <<67, 68>>, <<69, 70>> >>)>>),
             Round("CIRCLE", <<51, 52>>, <<1>>, <<>>),
             Round("ELLIPSE", <<53, 54>>, <<>>, <<>>)>>)
Blocks == {Block1, Block2}

IsMalformedValue(v) == 100 <= v /\ v <= 199
MaxStream == 2
BatchBounds == <<0, 200, 0, 200>>

RECURSIVE Streams(_)
Streams(n) ==
    IF n = 0 THEN {<<>>}
    ELSE LET shorter == Streams(n - 1)
         IN  shorter \cup
             {Append(m, e) : m \in {t \in shorter : Len(t) = n - 1},
                             e \in WellFormed \cup Malformed \cup Blocks}
\* a large drawing of plain lines with one block reference
LargeStreams == {Rep(BulkLine, BigRun) \o <<b>> : b \in Blocks}

\* type_counts, as main and render_dxf_sections count it
TypeCountsOf(m) ==
    [t \in {m[k].etype : k \in 1..Len(m)} |->
        Cardinality({k \in 1..Len(m) : m[k].etype = t})]

\* main classifies the drawing (line 1010), then collects its points and its
\* drawable batch
InitCollect ==
    /\ col_msp \in Streams(MaxStream) \cup LargeStreams
    /\ batch_bounds \in {NoBounds, BatchBounds}
    /\ entity_counts = TypeCountsOf(col_msp)
    /\ layers = <<"0">>
    /\ is_flattened = detect_flattened_dxf(entity_counts, layers)
    /\ fpc = "idle"
    /\ all_x = <<>> /\ all_y = <<>> /\ bounds = NoResult
    /\ col_i = 1
    /\ geometry = NoGeometry
    /\ cpc = "points"
    /\ TrIdle /\ ZoneIdle /\ SecIdle /\ MainIdle

\* one turn of "for e in msp" in collect_all_points
CollectPoints ==
    /\ cpc = "points"
    /\ col_i <= Len(col_msp)
    /\ LET r == PointsOf(col_msp[col_i])
       IN  /\ all_x' = all_x \o r.xs
           /\ all_y' = all_y \o r.ys
           /\ cpc' = IF r.raised THEN "raised" ELSE cpc
    /\ col_i' = col_i + 1
    /\ UNCHANGED <<bounds, col_msp, batch_bounds, geometry,
                   trVars, zoneVars, flatVars, secVars, mainVars>>

\* "return all_x, all_y"
ReturnPoints ==
    /\ cpc = "points"
    /\ col_i > Len(col_msp)
    /\ cpc' = "batch"
    /\ col_i' = 1
    /\ UNCHANGED <<boundsVars, col_msp, batch_bounds, geometry,
                   trVars, zoneVars, flatVars, secVars, mainVars>>

\* one turn of "for entity in msp" in collect_geometry_batch
CollectBatch ==
    /\ cpc = "batch"
    /\ col_i <= Len(col_msp)
    /\ LET r == BatchOf(batch_bounds, col_msp[col_i])
       IN  /\ geometry' = [GeoCat(geometry, r) EXCEPT !.raised = FALSE]
           /\ cpc' = IF r.raised THEN "raised" ELSE cpc
    /\ col_i' = col_i + 1
    /\ UNCHANGED <<boundsVars, col_msp, batch_bounds,
                   trVars, zoneVars, flatVars, secVars, mainVars>>

\* the dict collect_geometry_batch returns: the arrays and their counts
ReturnBatch ==
    /\ cpc = "batch"
    /\ col_i > Len(col_msp)
    /\ geometry' =
          [lines_x |-> geometry.lines_x, lines_y |-> geometry.lines_y,
           circles |-> geometry.circles, arcs |-> geometry.arcs,
           line_count |-> Cardinality({k \in 1..Len(geometry.lines_x) :
                                          geometry.lines_x[k] = PenUp}),
           circle_count |-> Len(geometry.circles),
           arc_count |-> Len(geometry.arcs)]
    /\ cpc' = "done"
    /\ UNCHANGED <<boundsVars, col_msp, col_i, batch_bounds,
                   trVars, zoneVars, flatVars, secVars, mainVars>>

NextCollect ==
    \/ CollectPoints
    \/ ReturnPoints
    \/ CollectBatch
    \/ ReturnBatch

SpecCollect == InitCollect /\ [][NextCollect]_vars

\* the coordinates an entity carries, and the primitives d INSERTs deep
CoordsOf(e) == UNION {Range(e.pts[k]) : k \in 1..Len(e.pts)}
RECURSIVE EntitiesAtDepth(_, _)
EntitiesAtDepth(m, d) ==
    UNION {IF m[k].etype = "INSERT"
           THEN IF d > 0 THEN EntitiesAtDepth(m[k].children, d - 1) ELSE {}
           ELSE IF d = 0 THEN {m[k]} ELSE {} : k \in 1..Len(m)}
ValuesAtDepth(d) == UNION {CoordsOf(e) : e \in EntitiesAtDepth(col_msp, d)}
IsMalformedEntity(e) ==
    \/ \E k \in 1..Len(e.pts) : ~HasY(e.pts[k])
    \/ e.etype \in {"CIRCLE", "ARC"} /\ e.radius = <<>>
    \/ e.etype = "ARC" /\ e.angles = <<>>
PointTypes == {"LINE", "LWPOLYLINE", "POLYLINE", "CIRCLE", "ARC", "POINT", "ELLIPSE"}
BatchTypes == {"LINE", "LWPOLYLINE", "POLYLINE", "CIRCLE", "ARC", "SPLINE"}
InBatchBounds(e) ==
    \/ batch_bounds = NoBounds
    \/ \A k \in 1..Len(e.pts) :
          in_bounds(batch_bounds, e.pts[k][1], e.pts[k][2])

\* the coordinates in the point cloud and in the batch
PointValues == Range(all_x) \cup Range(all_y)
LineValues(s) == {s[k][1] : k \in {j \in 1..Len(s) : s[j] # PenUp}}
CentreValues(s) == UNION {{s[k][1], s[k][2]} : k \in 1..Len(s)}
BatchValues ==
    LineValues(geometry.lines_x) \cup LineValues(geometry.lines_y)
        \cup CentreValues(geometry.circles) \cup CentreValues(geometry.arcs)
InPoints(e) ==
    (~IsMalformedEntity(e) /\ e.etype \in PointTypes) =>
        CoordsOf(e) \subseteq PointValues
InBatch(e) ==
    (~IsMalformedEntity(e) /\ e.etype \in BatchTypes /\ InBatchBounds(e)) =>
        CoordsOf(e) \subseteq BatchValues

\* C14 as stated: in a structured drawing both collections expand INSERTs
\* exactly one level (primitives one INSERT deep contribute, primitives two
\* or more deep contribute nothing); in a flattened drawing an INSERT
\* contributes nothing at all.
C14_OneLevelUnlessFlattened ==
    (cpc = "done") =>
        /\ ~is_flattened =>
              /\ \A e \in EntitiesAtDepth(col_msp, 1) : InPoints(e) /\ InBatch(e)
              /\ PointValues \cap (ValuesAtDepth(2) \cup ValuesAtDepth(3)) = {}
              /\ BatchValues \cap (ValuesAtDepth(2) \cup ValuesAtDepth(3)) = {}
        /\ is_flattened =>
              \A d \in 1..3 : /\ PointValues \cap ValuesAtDepth(d) = {}
                              /\ BatchValues \cap ValuesAtDepth(d) = {}

\* C14 amended: collect_all_points expands INSERTs exactly one level and
\* collect_geometry_batch exactly two levels (deeper primitives contribute
\* nothing), whether the drawing is classified as structured or flattened.
C14_PointsOneLevelBatchTwo ==
    (cpc = "done") =>
        /\ \A e \in EntitiesAtDepth(col_msp, 1) : InPoints(e) /\ InBatch(e)
        /\ \A e \in EntitiesAtDepth(col_msp, 2) : InBatch(e)
        /\ PointValues \cap (ValuesAtDepth(2) \cup ValuesAtDepth(3)) = {}
        /\ BatchValues \cap ValuesAtDepth(3) = {}

\* a flattened drawing whose only block nests three levels: its level-2 line
\* is in the batch and its level-1 circle is in both collections
C14_Witness ==
    /\ cpc = "done"
    /\ is_flattened
    /\ Block2 \in Range(col_msp)
    /\ {61, 62, 63, 64} \subseteq BatchValues
    /\ {51, 52} \subseteq (BatchValues \cap PointValues)
    /\ 81 \notin BatchValues

\* the stream without its malformed entities, inside blocks too
RECURSIVE WithoutMalformed(_)
WithoutMalformed(m) ==
    LET kept == SelectSeq(m, LAMBDA e : e.etype = "INSERT" \/ ~IsMalformedEntity(e))
    IN  [k \in 1..Len(kept) |->
            IF kept[k].etype = "INSERT"
            THEN [kept[k] EXCEPT !.children = WithoutMalformed(kept[k].children)]
            ELSE kept[k]]

\* what the well-formed entities put into an array: the entries whose
\* coordinate is not one of a malformed entity (100 to 199); lines_x and
\* lines_y are taken three entries (x1, x2, None) at a time
FromWellFormed(s) == SelectSeq(s, LAMBDA v : ~IsMalformedValue(v))
LinesFromWellFormed(s) ==
    LET n == Len(s) \div 3
    IN  Concat([t \in 1..n |->
                   IF IsMalformedValue(s[3 * t - 2][1]) THEN <<>>
                   ELSE SubSeq(s, 3 * t - 2, 3 * t)], 1, n)
RoundFromWellFormed(s) == SelectSeq(s, LAMBDA c : ~IsMalformedValue(c[1]))

\* C15: both collections run to completion without raising, whatever
\* malformed entities the stream holds and wherever they are, and every
\* well-formed entity contributes the points and primitives it contributes
\* in the stream without the malformed ones.
C15_MalformedSkipped ==
    /\ cpc # "raised"
    /\ cpc \in {"batch", "done"} =>
          LET clean == collect_all_points(WithoutMalformed(col_msp))
          IN  /\ FromWellFormed(all_x) = clean.xs
              /\ FromWellFormed(all_y) = clean.ys
    /\ (cpc = "done") =>
          LET clean == collect_geometry_batch(WithoutMalformed(col_msp),
                                              batch_bounds)
          IN  /\ LinesFromWellFormed(geometry.lines_x) = clean.lines_x
              /\ LinesFromWellFormed(geometry.lines_y) = clean.lines_y
              /\ RoundFromWellFormed(geometry.circles) = clean.circles
              /\ RoundFromWellFormed(geometry.arcs) = clean.arcs

\* a malformed line first, then a block whose well-formed arc and point come
\* after two malformed members: the arc is in both collections, the point in
\* the cloud
C15_Witness ==
    /\ cpc = "done"
    /\ col_msp = <<LineNoY, Block1>>
    /\ {45, 46} \subseteq (BatchValues \cap PointValues)
    /\ {47, 48} \subseteq PointValues
    /\ geometry.arc_count = 1

IsPrefix(a, b) == Len(a) <= Len(b) /\ SubSeq(b, 1, Len(a)) = a

\* C16: the X and Y sequences collect_all_points returns have equal length,
\* also after entities that fail part-way through their coordinates, and at
\* every step of the collection they only grow.
C16_EqualLengthAppendOnly ==
    /\ [](cpc \in {"batch", "done"} => Len(all_x) = Len(all_y))
    /\ [][IsPrefix(all_x, all_x') /\ IsPrefix(all_y, all_y')]_vars
=============================================================================
